---- MODULE Spec2Model ----
(***************************************************************************)
(* Progressive-disclosure form wizard: fastmcp_wizard.WizardManager.       *)
(* A registry of FormStep records is built with add_step; execute walks    *)
(* the registry in order against the session state kept under wizard_id.   *)
(***************************************************************************)
EXTENDS Integers, Sequences, FiniteSets, TLC

\* ------------------------------------------------------------------ bounds
MaxSteps == 2
MaxAttempts == 2

\* the key prompts of one Google Maps call that the model follows
MaxPrompts == 2

\* the invocations of create_authenticated_client that the model follows
MaxAuthCalls == 2

\* ------------------------------------------------------- program constants
CodeRequiredDeclined == -32600
CodeCancelled == -32000
CodeUnknownAction == -32603

\* ------------------------------------------------------------ value spaces
StepIds == {"a", "b", "c"}
Values == {1, 2}
ErrorListings == {"e1", "e2"}
\* calls of execute; under Spec one call runs at a time, made by run 1
Runs == {1, 2}
SeqRuns == {1}

\* FormStep.condition is None or any callable on the answer map: modelled by the
\* test of the examples, data.get(key) == val, and by its negation.
NoCondition == [kind |-> "none", key |-> "a", val |-> 1]
Conditions ==
    {NoCondition} \cup
    {[kind |-> k, key |-> "a", val |-> 1] : k \in {"eq", "neq"}}

FormStep ==
    [step_id : StepIds, message : {"m"}, condition : Conditions,
     is_required : BOOLEAN]

\* ------------------------------------------------------------------- maps
EmptyMap == [x \in {} |-> 0]

\* the map replaced by the one new entry
PutAlone(m, k, v) == [x \in {k} |-> v]

\* session_data[step.step_id] = result.data
Put(m, k, v) == [x \in (DOMAIN m) \cup {k} |-> IF x = k THEN v ELSE m[x]]

\* dict.get(key) == val / != val, as the conditions of the examples use it
ConditionHolds(c, data) ==
    CASE c.kind = "none" -> TRUE
      [] c.kind = "eq" -> c.key \in DOMAIN data /\ data[c.key] = c.val
      [] c.kind = "neq" -> ~(c.key \in DOMAIN data /\ data[c.key] = c.val)

\* ------------------------------------------------------------ session store
\* The value kept under wizard_id: a dict, nothing (None), or some other value.
StoreDict(m) == [kind |-> "dict", val |-> m]
StoreMissing == [kind |-> "none", val |-> EmptyMap]
StoreOther == [kind |-> "other", val |-> EmptyMap]

\* session_data = (await ctx.get_state(wizard_id)) or {}; non-dict -> {}
LoadState(s) == IF s.kind = "dict" THEN s.val ELSE EmptyMap

\* ------------------------------------------------------------------- errors
NoError == [code |-> 0, step |-> "-"]
McpError(c, s) == [code |-> c, step |-> s]

VARIABLES
    steps,            \* WizardManager.steps
    sealed,           \* registration is over: execute has been called
    store,            \* session state under wizard_id
    pc,               \* per run: idle, loop, asking, done, aborted
    idx,              \* per run: position of the for loop in steps
    session_data,     \* per run: the local answer map
    current_message,  \* per run: prompt of the current elicit
    attempts,         \* per run: failed validations of the current step
    pending,          \* per run: registry indices with an elicit in flight
    err,              \* per run: the error execute raised
    result,           \* per run: the map execute returned
    loaded,           \* per run: session_data as loaded at the start
    step_state,       \* per run: what became of each registry index
    condFalse         \* per run: indices whose condition was false when reached

wizardVars == <<steps, sealed, store, pc, idx, session_data, current_message,
                attempts, pending, err, result, loaded, step_state, condFalse>>

\* One call of a tool of an MCP server: send_message of Mac Messages, or a
\* write tool of the Apple Calendar and Apple Reminders servers.
VARIABLES
    tool_pc,          \* "idle", "eliciting" (awaiting ctx.elicit), "returned", "raised"
    tool_call,        \* the tool called and its arguments, with the profile in force
    tool_trace,       \* the collaborators called by this tool call, in order
    elicited,         \* what ctx.elicit returned to this tool call
    tool_result       \* the text the tool call returned

callVars == <<tool_pc, tool_call, tool_trace, elicited, tool_result>>

\* What a server finds around it: the profile file and the environment.
VARIABLES
    profile_file,     \* the table of the profile file found, or NoProfile
    environ           \* the value of the environment variable a secret names

configVars == <<profile_file, environ>>

\* The Google Maps server: the session state of each client session, and the
\* module-level response cache and stored API key.
VARIABLES
    external_call_approved,  \* per session: ctx state "external_call_approved"
    maps_cache,              \* the cache keys that hold a response
    api_key_stored           \* whether the secrets manager holds an API key

mapsVars == <<external_call_approved, maps_cache, api_key_stored>>

\* The Find My server: the tool calls in flight, the lazily initialised
\* client provider, the credentials store and the device cache.
VARIABLES
    task,            \* per task: the tool call it is running and how far it is
    client,          \* AppleClientProvider._client: 0 is None, else the instance
    lock,            \* the task that holds the init lock, 0 when it is free
    auth_calls,      \* invocations of create_authenticated_client
    created,         \* clients created so far
    was_reset,       \* whether reset_auth_state_only has been called
    credentials,     \* whether the secrets backend holds Apple credentials
    device_cache,    \* per cache key: the cached device list
    reauth_pending   \* credentials were cleared and no authentication began since

findmyVars == <<task, client, lock, auth_calls, created, was_reset, credentials,
                device_cache, reauth_pending>>

hostVars == <<configVars, mapsVars, findmyVars>>

\* what the actions of one server leave alone besides the tool call
besideConfig == <<wizardVars, callVars, mapsVars, findmyVars>>
besideMaps == <<wizardVars, configVars, findmyVars>>
besideFindMy == <<wizardVars, callVars, configVars, mapsVars>>

Sessions == {"s1", "s2"}

Tasks == {1, 2}

\* ctx.session_id: each task carries the requests of one client session
SessionOf(t) == IF t = 1 THEN "s1" ELSE "s2"

IdleTask ==
    [pc |-> "idle", tool |-> "-", session |-> "-", stage |-> "-",
     attempted |-> FALSE, waited |-> FALSE, authed |-> FALSE, body |-> FALSE,
     client |-> 0, outcome |-> "-", hit |-> FALSE, owner |-> "-"]

NoEntry == [present |-> FALSE, fresh |-> FALSE, owner |-> "-"]

toolVars == <<callVars, hostVars>>

vars == <<wizardVars, toolVars>>

NoCall == [tool |-> "-"]
NoElicitResult == [action |-> "-", data |-> "-"]
NoText == "-"
NoSecretRef == [scheme |-> "none", backend |-> "", key |-> ""]
NoProfile ==
    [confirmation_policy |-> "absent", allowed_recipients |-> <<>>,
     allow_group_messages |-> TRUE, allowed_recipients_secret |-> NoSecretRef]
Unset == [set |-> FALSE, value |-> <<>>]

ToolInit ==
    /\ tool_pc = "idle"
    /\ tool_call = NoCall
    /\ tool_trace = <<>>
    /\ elicited = NoElicitResult
    /\ tool_result = NoText
    /\ profile_file = NoProfile
    /\ environ = Unset
    /\ external_call_approved = [s \in Sessions |-> FALSE]
    /\ maps_cache = {}
    /\ api_key_stored = FALSE
    /\ task = [t \in Tasks |-> IdleTask]
    /\ client = 0
    /\ lock = 0
    /\ auth_calls = 0
    /\ created = 0
    /\ was_reset = FALSE
    /\ credentials = FALSE
    /\ device_cache = [s \in Sessions |-> NoEntry]
    /\ reauth_pending = FALSE

\* current_message is a local of one pass of the for loop: it is dead once the
\* while loop is left. attempts counts the ValidationErrors of the step last
\* elicited and is forgotten when the for loop moves on.
NoMessage == [base |-> "-", errors |-> "-"]

\* What became of a registry index in a run: not reached, bypassed as answered,
\* skipped as hidden, elicit in flight, or the action of the result that ended
\* its while loop (raised: elicit threw).
StepStates ==
    {"pending", "answered", "skipped", "asking", "accept", "decline",
     "cancel", "other", "raised", "store_failed"}

AskedStates == StepStates \ {"pending", "answered", "skipped"}

\* the session and the calls before any call of execute
NoRunYet ==
    /\ sealed = FALSE
    /\ store \in {StoreMissing, StoreOther}
    /\ pc = [r \in Runs |-> "idle"]
    /\ idx = [r \in Runs |-> 1]
    /\ session_data = [r \in Runs |-> EmptyMap]
    /\ current_message = [r \in Runs |-> NoMessage]
    /\ attempts = [r \in Runs |-> 0]
    /\ pending = [r \in Runs |-> {}]
    /\ err = [r \in Runs |-> NoError]
    /\ result = [r \in Runs |-> EmptyMap]
    /\ loaded = [r \in Runs |-> EmptyMap]
    /\ step_state = [r \in Runs |-> <<>>]
    /\ condFalse = [r \in Runs |-> {}]
    /\ ToolInit

Init ==
    /\ steps = <<>>
    /\ NoRunYet

\* add_step: append, no check of any kind
add_step(step) ==
    /\ ~sealed
    /\ Len(steps) < MaxSteps
    /\ steps' = Append(steps, step)
    /\ UNCHANGED <<sealed, store, pc, idx, session_data, current_message,
                   attempts, pending, err, result, loaded, step_state,
                   condFalse>>
    /\ UNCHANGED toolVars

\* execute, lines 33-35: load the session state and enter the for loop
Start(r) ==
    /\ pc[r] \in {"idle", "done", "aborted"}
    /\ sealed' = TRUE
    /\ session_data' = [session_data EXCEPT ![r] = LoadState(store)]
    /\ loaded' = [loaded EXCEPT ![r] = LoadState(store)]
    /\ idx' = [idx EXCEPT ![r] = 1]
    /\ pc' = [pc EXCEPT ![r] = "loop"]
    /\ current_message' = [current_message EXCEPT ![r] = NoMessage]
    /\ attempts' = [attempts EXCEPT ![r] = 0]
    /\ pending' = [pending EXCEPT ![r] = {}]
    /\ err' = [err EXCEPT ![r] = NoError]
    /\ result' = [result EXCEPT ![r] = EmptyMap]
    /\ step_state' = [step_state EXCEPT ![r] = [j \in 1..Len(steps) |-> "pending"]]
    /\ condFalse' = [condFalse EXCEPT ![r] = {}]
    /\ UNCHANGED <<steps, store>>
    /\ UNCHANGED toolVars

AtStep(r) == pc[r] = "loop" /\ idx[r] <= Len(steps)
CurStep(r) == steps[idx[r]]

\* the membership test left out: every step counts as unanswered
AlreadyAnsweredNever(step, data) == FALSE

\* line 39: step.step_id in session_data
AlreadyAnswered(step, data) == step.step_id \in DOMAIN data

\* the condition left unevaluated: no step is ever hidden
HiddenNever(step, data) == FALSE

\* line 41: step.condition and not step.condition(session_data)
Hidden(step, data) ==
    step.condition.kind # "none" /\ ~ConditionHolds(step.condition, data)

Mark(r, s) == [step_state EXCEPT ![r][idx[r]] = s]

NoteCondition(r) ==
    [condFalse EXCEPT ![r] =
        IF ConditionHolds(CurStep(r).condition, session_data[r])
        THEN @ ELSE @ \cup {idx[r]}]

\* lines 39-40
SkipAnswered(r) ==
    /\ AtStep(r)
    /\ AlreadyAnswered(CurStep(r), session_data[r])
    /\ idx' = [idx EXCEPT ![r] = @ + 1]
    /\ step_state' = Mark(r, "answered")
    /\ condFalse' = NoteCondition(r)
    /\ current_message' = [current_message EXCEPT ![r] = NoMessage]
    /\ attempts' = [attempts EXCEPT ![r] = 0]
    /\ UNCHANGED <<steps, sealed, store, pc, session_data, pending, err,
                   result, loaded>>
    /\ UNCHANGED toolVars

\* lines 41-42
SkipHidden(r) ==
    /\ AtStep(r)
    /\ ~AlreadyAnswered(CurStep(r), session_data[r])
    /\ Hidden(CurStep(r), session_data[r])
    /\ idx' = [idx EXCEPT ![r] = @ + 1]
    /\ step_state' = Mark(r, "skipped")
    /\ condFalse' = NoteCondition(r)
    /\ current_message' = [current_message EXCEPT ![r] = NoMessage]
    /\ attempts' = [attempts EXCEPT ![r] = 0]
    /\ UNCHANGED <<steps, sealed, store, pc, session_data, pending, err,
                   result, loaded>>
    /\ UNCHANGED toolVars

\* lines 45-52: first elicit of a step
Ask(r) ==
    /\ AtStep(r)
    /\ ~AlreadyAnswered(CurStep(r), session_data[r])
    /\ ~Hidden(CurStep(r), session_data[r])
    /\ current_message' =
         [current_message EXCEPT ![r] = [base |-> CurStep(r).message, errors |-> "-"]]
    /\ attempts' = [attempts EXCEPT ![r] = 0]
    /\ pending' = [pending EXCEPT ![r] = @ \cup {idx[r]}]
    /\ step_state' = Mark(r, "asking")
    /\ pc' = [pc EXCEPT ![r] = "asking"]
    /\ condFalse' = NoteCondition(r)
    /\ UNCHANGED <<steps, sealed, store, idx, session_data, err, result,
                   loaded>>
    /\ UNCHANGED toolVars

\* is_required ignored: every decline is a skip
DispatchDeclineSkips(action, step) ==
    CASE action = "accept" -> "store"
      [] action = "decline" -> "skip"
      [] action = "cancel" -> "raise_cancelled"
      [] OTHER -> "raise_unknown"

\* cancel treated like decline: an optional step cancelled is skipped
DispatchCancelAsDecline(action, step) ==
    CASE action = "accept" -> "store"
      [] action = "decline" -> IF step.is_required THEN "raise_declined" ELSE "skip"
      [] action = "cancel" -> IF step.is_required THEN "raise_cancelled" ELSE "skip"
      [] OTHER -> "raise_unknown"

\* no else branch: an action that is none of the three is passed over like a decline
DispatchUnknownAsDecline(action, step) ==
    CASE action = "accept" -> "store"
      [] action = "cancel" -> "raise_cancelled"
      [] OTHER -> IF step.is_required THEN "raise_declined" ELSE "skip"

\* lines 55-72: the if / elif chain on result.action
Dispatch(action, step) ==
    CASE action = "accept" -> "store"
      [] action = "decline" -> IF step.is_required THEN "raise_declined" ELSE "skip"
      [] action = "cancel" -> "raise_cancelled"
      [] OTHER -> "raise_unknown"

\* the write to the session state left out
PersistedNever(old, data) == old

\* read-modify-write: the stored map merged with the run's copy
PersistedMerged(old, data) ==
    StoreDict([k \in DOMAIN LoadState(old) \cup DOMAIN data |->
                  IF k \in DOMAIN data THEN data[k] ELSE LoadState(old)[k]])

\* the write made only over a stored dict: a stored non-dict value is left in place
PersistedOverDict(old, data) == IF old.kind = "dict" THEN StoreDict(data) ELSE old

\* line 58: ctx.set_state(wizard_id, session_data)
Persisted(old, data) == StoreDict(data)

\* the break of line 59 left out: the answer is stored and the step elicited again
StoreAnswerNoBreak(r, v) ==
    LET data == Put(session_data[r], CurStep(r).step_id, v) IN
    /\ session_data' = [session_data EXCEPT ![r] = data]
    /\ store' = Persisted(store, data)
    /\ UNCHANGED <<idx, pc, err>>

\* lines 57-59: record, persist, leave the retry loop
StoreAnswer(r, v) ==
    LET data == Put(session_data[r], CurStep(r).step_id, v) IN
    /\ session_data' = [session_data EXCEPT ![r] = data]
    /\ store' = Persisted(store, data)
    /\ idx' = [idx EXCEPT ![r] = @ + 1]
    /\ pc' = [pc EXCEPT ![r] = "loop"]
    /\ UNCHANGED <<err>>

\* continue instead of break: the while loop elicits the declined step again
SkipDeclinedAgain(r) ==
    /\ pc' = [pc EXCEPT ![r] = "loop"]
    /\ UNCHANGED <<idx, session_data, store, err>>

\* line 64: an optional step declined, nothing recorded
SkipDeclined(r) ==
    /\ idx' = [idx EXCEPT ![r] = @ + 1]
    /\ pc' = [pc EXCEPT ![r] = "loop"]
    /\ UNCHANGED <<session_data, store, err>>

\* the session state cleared on the way out, as on completion
RaiseAndClear(r, e) ==
    /\ pc' = [pc EXCEPT ![r] = "aborted"]
    /\ err' = [err EXCEPT ![r] = e]
    /\ store' = StoreDict(EmptyMap)
    /\ UNCHANGED <<session_data, idx>>

\* lines 63, 68, 72: raise McpError out of execute
Raise(r, e) ==
    /\ pc' = [pc EXCEPT ![r] = "aborted"]
    /\ err' = [err EXCEPT ![r] = e]
    /\ UNCHANGED <<session_data, store, idx>>

\* the elicit in flight returns a result with this action
Respond(r, action, v) ==
    /\ pc[r] = "asking"
    /\ pending' = [pending EXCEPT ![r] = @ \ {idx[r]}]
    /\ step_state' = Mark(r, action)
    /\ LET b == Dispatch(action, CurStep(r)) IN
         CASE b = "store" -> StoreAnswer(r, v)
           [] b = "skip" -> SkipDeclined(r)
           [] b = "raise_declined" ->
                Raise(r, McpError(CodeRequiredDeclined, CurStep(r).step_id))
           [] b = "raise_cancelled" -> Raise(r, McpError(CodeCancelled, "-"))
           [] OTHER -> Raise(r, McpError(CodeUnknownAction, "-"))
    /\ current_message' = [current_message EXCEPT ![r] = NoMessage]
    /\ UNCHANGED <<steps, sealed, attempts, result, loaded, condFalse>>
    /\ UNCHANGED toolVars

Accept(r, v) == Respond(r, "accept", v)
Decline(r) == Respond(r, "decline", 1)
Cancel(r) == Respond(r, "cancel", 1)
UnknownAction(r) == Respond(r, "other", 1)

\* line 78: the original message followed by the listing of this attempt's errors
RetryMessage(step, errors) == [base |-> step.message, errors |-> errors]

\* lines 74-79: elicit raised ValidationError; re-elicit with the annotated message
Invalid(r, errors) ==
    /\ pc[r] = "asking"
    /\ attempts[r] < MaxAttempts
    /\ attempts' = [attempts EXCEPT ![r] = @ + 1]
    /\ current_message' = [current_message EXCEPT ![r] = RetryMessage(CurStep(r), errors)]
    /\ UNCHANGED <<steps, sealed, store, pc, idx, session_data, pending, err,
                   result, loaded, step_state, condFalse>>
    /\ UNCHANGED toolVars

ElicitFailure == [code |-> 1, step |-> "-"]

\* line 74 catches ValidationError only: any other exception of elicit leaves execute
ElicitRaises(r) ==
    /\ pc[r] = "asking"
    /\ pending' = [pending EXCEPT ![r] = @ \ {idx[r]}]
    /\ pc' = [pc EXCEPT ![r] = "aborted"]
    /\ err' = [err EXCEPT ![r] = ElicitFailure]
    /\ step_state' = Mark(r, "raised")
    /\ current_message' = [current_message EXCEPT ![r] = NoMessage]
    /\ UNCHANGED <<steps, sealed, store, idx, session_data, attempts, result,
                   loaded, condFalse>>
    /\ UNCHANGED toolVars

\* the collected answers written back instead of {}
ClearedKeep(data) == data

\* line 82: the value set under wizard_id on completion
Cleared(data) == EmptyMap

\* lines 81-83: the for loop is exhausted
Complete(r) ==
    /\ pc[r] = "loop"
    /\ idx[r] > Len(steps)
    /\ store' = StoreDict(Cleared(session_data[r]))
    /\ result' = [result EXCEPT ![r] = session_data[r]]
    /\ pc' = [pc EXCEPT ![r] = "done"]
    /\ current_message' = [current_message EXCEPT ![r] = NoMessage]
    /\ attempts' = [attempts EXCEPT ![r] = 0]
    /\ UNCHANGED <<steps, sealed, idx, session_data, pending, err, loaded,
                   step_state, condFalse>>
    /\ UNCHANGED toolVars

Step(r) ==
    \/ Start(r)
    \/ SkipAnswered(r)
    \/ SkipHidden(r)
    \/ Ask(r)
    \/ \E v \in Values : Accept(r, v)
    \/ Decline(r)
    \/ Cancel(r)
    \/ UnknownAction(r)
    \/ \E e \in ErrorListings : Invalid(r, e)
    \/ ElicitRaises(r)
    \/ Complete(r)

Next ==
    \/ \E s \in FormStep : add_step(s)
    \/ \E r \in SeqRuns : Step(r)

Spec == Init /\ [][Next]_vars

\* ------------------------------------------------- overlapping calls of execute
\* Two calls of execute on the same session and wizard_id, each made once, their
\* steps interleaved at the awaits. The registry holds unconditional steps
\* and the user answers each prompt with accept, decline or cancel.
PlainSteps == {s \in FormStep : s.condition = NoCondition}

\* a session in which nothing is stored under wizard_id
InitFresh == Init /\ store = StoreMissing

Call(r) == pc[r] = "idle" /\ Start(r)

StepConc(r) ==
    \/ Call(r)
    \/ SkipAnswered(r)
    \/ Ask(r)
    \/ \E v \in Values : Accept(r, v)
    \/ Decline(r)
    \/ Cancel(r)
    \/ Complete(r)

NextConc ==
    \/ \E s \in PlainSteps : add_step(s)
    \/ \E r \in Runs : StepConc(r)

SpecConc == InitFresh /\ [][NextConc]_vars

\* ------------------------------------------------- a session store that fails
\* What ctx.get_state or ctx.set_state raises: a pydantic ValidationError
\* ("validation") or any other exception ("error").
FailureKinds == {"error", "validation"}
StoreFailure(kind) == [code |-> 2, step |-> kind]

\* line 33: get_state raises, outside any try
GetStateRaises(r, kind) ==
    /\ pc[r] \in {"idle", "done", "aborted"}
    /\ sealed' = TRUE
    /\ session_data' = [session_data EXCEPT ![r] = EmptyMap]
    /\ loaded' = [loaded EXCEPT ![r] = EmptyMap]
    /\ idx' = [idx EXCEPT ![r] = 1]
    /\ pc' = [pc EXCEPT ![r] = "aborted"]
    /\ current_message' = [current_message EXCEPT ![r] = NoMessage]
    /\ attempts' = [attempts EXCEPT ![r] = 0]
    /\ pending' = [pending EXCEPT ![r] = {}]
    /\ err' = [err EXCEPT ![r] = StoreFailure(kind)]
    /\ result' = [result EXCEPT ![r] = EmptyMap]
    /\ step_state' = [step_state EXCEPT ![r] = [j \in 1..Len(steps) |-> "pending"]]
    /\ condFalse' = [condFalse EXCEPT ![r] = {}]
    /\ UNCHANGED <<steps, store>>
    /\ UNCHANGED toolVars

\* lines 55-58 and 74-79: the answer is accepted and put in session_data, then
\* set_state raises inside the try block; the except clause takes a
\* ValidationError as a failed validation and the step is elicited again,
\* any other exception leaves execute
SetStateRaises(r, v, kind, errors) ==
    /\ pc[r] = "asking"
    /\ session_data' = [session_data EXCEPT
                           ![r] = Put(@, CurStep(r).step_id, v)]
    /\ step_state' = Mark(r, "store_failed")
    /\ IF kind = "validation"
       THEN /\ attempts[r] < MaxAttempts
            /\ attempts' = [attempts EXCEPT ![r] = @ + 1]
            /\ current_message' = [current_message EXCEPT
                                      ![r] = RetryMessage(CurStep(r), errors)]
            /\ UNCHANGED <<pc, pending, err>>
       ELSE /\ pc' = [pc EXCEPT ![r] = "aborted"]
            /\ pending' = [pending EXCEPT ![r] = @ \ {idx[r]}]
            /\ err' = [err EXCEPT ![r] = StoreFailure(kind)]
            /\ current_message' = [current_message EXCEPT ![r] = NoMessage]
            /\ UNCHANGED attempts
    /\ UNCHANGED <<steps, sealed, store, idx, result, loaded, condFalse>>
    /\ UNCHANGED toolVars

\* line 82: set_state raises after the for loop, outside any try
ClearRaises(r, kind) ==
    /\ pc[r] = "loop"
    /\ idx[r] > Len(steps)
    /\ pc' = [pc EXCEPT ![r] = "aborted"]
    /\ err' = [err EXCEPT ![r] = StoreFailure(kind)]
    /\ UNCHANGED <<steps, sealed, store, idx, session_data, current_message,
                   attempts, pending, result, loaded, step_state, condFalse>>
    /\ UNCHANGED toolVars

StepFail(r) ==
    \/ Step(r)
    \/ \E k \in FailureKinds : GetStateRaises(r, k)
    \/ \E v \in Values, k \in FailureKinds, e \in ErrorListings :
           SetStateRaises(r, v, k, e)
    \/ \E k \in FailureKinds : ClearRaises(r, k)

NextFail ==
    \/ \E s \in FormStep : add_step(s)
    \/ \E r \in SeqRuns : StepFail(r)

SpecFail == Init /\ [][NextFail]_vars

\* ------------------------------------------------- a run to its end
\* One call of execute with collaborators that do not fail. The retry loop of
\* lines 46-79 goes round again after every ValidationError, also once the
\* attempts counter of the model has reached its bound.
InvalidAgain(r, errors) ==
    /\ pc[r] = "asking"
    /\ attempts[r] = MaxAttempts
    /\ current_message' = [current_message EXCEPT ![r] = RetryMessage(CurStep(r), errors)]
    /\ UNCHANGED <<steps, sealed, store, pc, idx, session_data, attempts,
                   pending, err, result, loaded, step_state, condFalse>>
    /\ UNCHANGED toolVars

\* the steps execute takes on its own between two awaits
EngineStep(r) ==
    \/ SkipAnswered(r)
    \/ SkipHidden(r)
    \/ Ask(r)
    \/ Complete(r)

\* an elicit returns without a ValidationError
ValidResponse(r) ==
    \/ \E v \in Values : Accept(r, v)
    \/ Decline(r)
    \/ Cancel(r)
    \/ UnknownAction(r)

InvalidResponse(r) ==
    \/ \E e \in ErrorListings : Invalid(r, e)
    \/ \E e \in ErrorListings : InvalidAgain(r, e)

NextLive ==
    \/ \E s \in FormStep : add_step(s)
    \/ \E r \in SeqRuns : Call(r) \/ EngineStep(r) \/ ValidResponse(r) \/ InvalidResponse(r)

\* the event loop resumes the coroutine, and the user at some time gives a
\* response that passes validation
SpecLive ==
    /\ InitFresh
    /\ [][NextLive]_vars
    /\ \A r \in SeqRuns : WF_vars(EngineStep(r)) /\ WF_vars(ValidResponse(r))

\* ------------------------------------------------- constructing steps
\* FormStep(step_id, message, schema, ...) with any string as step_id and any
\* response type as schema: a string, or a list of options for a multi-select.
EmptyId == ""
Schemas ==
    {[kind |-> "str", options |-> <<>>],
     [kind |-> "multi", options |-> <<"x">>],
     [kind |-> "multi", options |-> <<>>]}

Malformed(schema) == schema.kind = "multi" /\ schema.options = <<>>

\* the __init__ the dataclass decorator generates: the fields are assigned
FormStepInit(step_id, message, schema, condition, is_required) ==
    [step_id |-> step_id, message |-> message, schema |-> schema,
     condition |-> condition, is_required |-> is_required]

NextConstruct ==
    \/ \E id \in StepIds \cup {EmptyId}, sc \in Schemas :
           add_step(FormStepInit(id, "m", sc, NoCondition, TRUE))
    \/ \E r \in SeqRuns :
           \/ Call(r)
           \/ SkipAnswered(r)
           \/ Ask(r)
           \/ ValidResponse(r)
           \/ Complete(r)

SpecConstruct == InitFresh /\ [][NextConstruct]_vars

\* ------------------------------------------------- Mac Messages: send_message
\* Strings are sequences of characters. Recipients and allowlist patterns are
\* phone numbers and addresses as a profile and a caller write them.
IsDigit(ch) == ch \in {"1", "2", "3"}
Lower(ch) == IF ch = "A" THEN "a" ELSE ch

Recipients ==
    {<<"+", "1", "2">>, <<"1", "-", "3">>, <<"A", "@", "x">>}
Patterns ==
    {<<"1", "2">>, <<"a", "@", "x">>, <<"+", "1", "*">>}
AllowLists == {<<>>} \cup {<<p>> : p \in Patterns}
Policies == {"always", "never", "external-only", "group-only"}

\* config.py lines 30-39: the fields of RuntimeConfig the send tool reads
RuntimeConfig ==
    [confirmation_policy : Policies, allowed_recipients : AllowLists,
     allow_group_messages : BOOLEAN]

\* str.lower()
lower(s) == [i \in 1..Len(s) |-> Lower(s[i])]

\* config.py line 151: the digits of the string
normalize_phone(raw) == SelectSeq(raw, IsDigit)

\* fnmatch.fnmatch on a pattern whose only wildcard is "*"
RECURSIVE fnmatch(_, _)
fnmatch(name, pat) ==
    IF pat = <<>> THEN name = <<>>
    ELSE IF Head(pat) = "*"
         THEN \/ fnmatch(name, Tail(pat))
              \/ name # <<>> /\ fnmatch(Tail(name), pat)
         ELSE /\ name # <<>>
              /\ Head(name) = Head(pat)
              /\ fnmatch(Tail(name), Tail(pat))

\* config.py lines 154-166
match_pattern(recipient, pattern) ==
    LET pattern_norm == lower(pattern)
        recipient_norm == lower(recipient)
        has(s, ch) == \E i \in 1..Len(s) : s[i] = ch
    IN  IF has(pattern_norm, "*")
        THEN fnmatch(recipient_norm, pattern_norm)
        ELSE IF has(recipient_norm, "@") \/ has(pattern_norm, "@")
             THEN recipient_norm = pattern_norm
             ELSE normalize_phone(recipient_norm) = normalize_phone(pattern_norm)

\* the empty-allowlist test left out and turned round: nothing configured allows all
recipient_is_allowed_by_default(recipient, allowed_recipients) ==
    \/ allowed_recipients = <<>>
    \/ \E i \in 1..Len(allowed_recipients) :
          match_pattern(recipient, allowed_recipients[i])

\* config.py lines 169-173
recipient_is_allowed(recipient, allowed_recipients) ==
    /\ allowed_recipients # <<>>
    /\ \E i \in 1..Len(allowed_recipients) :
          match_pattern(recipient, allowed_recipients[i])

\* config.py lines 176-193
requires_confirmation(policy, recipient, group_chat, allowed_recipients) ==
    CASE policy = "always" -> TRUE
      [] policy = "never" -> FALSE
      [] policy = "group-only" -> group_chat
      [] policy = "external-only" ->
            ~recipient_is_allowed(recipient, allowed_recipients)

ElicitActions == {"accept", "decline", "cancel", "other"}

GroupDisabledText == "Group messages are disabled by runtime policy for the selected profile."
DeclinedText == "Message send declined by user."
CancelledText == "Message send cancelled by user."
NotConfirmedText == "Message send not confirmed; no action taken."
SentText == "sent"
ToolErrorText == "ToolError"

\* only a decline stops the send
SendOutcomeDeclineOnly(action) ==
    IF action = "decline" THEN DeclinedText ELSE SentText

\* server.py lines 128-135: what the tool returns after the elicitation;
\* SentText stands for the return value of core_send_message
SendOutcome(action) ==
    CASE action = "decline" -> DeclinedText
      [] action = "cancel" -> CancelledText
      [] action # "accept" -> NotConfirmedText
      [] OTHER -> SentText

\* server.py lines 104-107: get_runtime_config raises ConfigError
SendConfigError(recipient, group_chat) ==
    /\ tool_pc # "eliciting"
    /\ tool_call' = [tool |-> "send_message", recipient |-> recipient,
                     group_chat |-> group_chat, config |-> "ConfigError"]
    /\ tool_trace' = <<>>
    /\ elicited' = NoElicitResult
    /\ tool_pc' = "raised"
    /\ tool_result' = ToolErrorText
    /\ UNCHANGED <<wizardVars, hostVars>>

\* server.py lines 104-127 and 135: a call of send_message_tool up to its
\* return or to the await of ctx.elicit
SendCall(recipient, group_chat, config) ==
    /\ tool_pc # "eliciting"
    /\ tool_call' = [tool |-> "send_message", recipient |-> recipient,
                     group_chat |-> group_chat, config |-> config]
    /\ elicited' = NoElicitResult
    /\ IF group_chat /\ ~config.allow_group_messages
       THEN /\ tool_trace' = <<>>
            /\ tool_pc' = "returned"
            /\ tool_result' = GroupDisabledText
       ELSE IF requires_confirmation(config.confirmation_policy, recipient,
                                     group_chat, config.allowed_recipients)
            THEN /\ tool_trace' = <<"elicit">>
                 /\ tool_pc' = "eliciting"
                 /\ tool_result' = NoText
            ELSE /\ tool_trace' = <<"core_send_message">>
                 /\ tool_pc' = "returned"
                 /\ tool_result' = SentText
    /\ UNCHANGED <<wizardVars, hostVars>>

\* server.py lines 128-135: ctx.elicit has returned
SendElicited(action) ==
    /\ tool_pc = "eliciting"
    /\ tool_call.tool = "send_message"
    /\ elicited' = [action |-> action, data |-> "-"]
    /\ tool_result' = SendOutcome(action)
    /\ tool_trace' = IF SendOutcome(action) = SentText
                     THEN Append(tool_trace, "core_send_message")
                     ELSE tool_trace
    /\ tool_pc' = "returned"
    /\ UNCHANGED <<wizardVars, hostVars, tool_call>>

NextSend ==
    \/ \E rc \in Recipients, g \in BOOLEAN : SendConfigError(rc, g)
    \/ \E rc \in Recipients, g \in BOOLEAN, c \in RuntimeConfig : SendCall(rc, g, c)
    \/ \E a \in ElicitActions : SendElicited(a)

SpecSend == InitFresh /\ [][NextSend]_vars

\* how often a collaborator was called by the tool call
Calls(name) == Cardinality({i \in 1..Len(tool_trace) : tool_trace[i] = name})

\* ------------------------------------------------- Apple Calendar and Reminders
\* The write tools of events.py and reminders.py.
CalendarTools ==
    {"create_calendar_event", "update_calendar_event", "delete_calendar_event"}
ReminderTools == {"create_reminder", "update_reminder", "delete_reminder"}
WriteTools == CalendarTools \cup ReminderTools

\* the repository operation the tool awaits after the confirmation
RepositoryWrite(tool) ==
    CASE tool = "create_calendar_event" -> "create_event"
      [] tool = "update_calendar_event" -> "update_event"
      [] tool = "delete_calendar_event" -> "delete_event"
      [] OTHER -> tool

\* the lookup an update or delete tool awaits first
RepositoryFind(tool) ==
    IF tool \in CalendarTools THEN "find_event_by_id" ELSE "find_reminder_by_id"

Creates(tool) == tool \in {"create_calendar_event", "create_reminder"}
Updates(tool) == tool \in {"update_calendar_event", "update_reminder"}

\* events.py lines 172, 259, 310: the affirmative option of the calendar tools
Affirmative(tool) ==
    CASE tool = "create_calendar_event" -> "yes, create event"
      [] tool = "update_calendar_event" -> "yes, update event"
      [] tool = "delete_calendar_event" -> "yes, delete permanently"
      [] OTHER -> "-"

\* the text returned when the write is not confirmed
WriteCancelledText(tool) ==
    CASE tool = "create_calendar_event" -> "Event creation cancelled."
      [] tool = "update_calendar_event" -> "Event update cancelled."
      [] tool = "delete_calendar_event" -> "Event deletion cancelled."
      [] tool = "create_reminder" -> "Reminder creation cancelled."
      [] tool = "update_reminder" -> "Reminder update cancelled."
      [] OTHER -> "Reminder deletion cancelled."

NoChangesText == "No changes detected"
SuccessText == "success"
RaisedText == "raised"

\* result.data of an elicitation: nothing, the selected string, or a dict
\* holding it
ElicitData(tool) ==
    {[kind |-> "none", val |-> "-"]} \cup
    [kind : {"str", "dict"}, val : {Affirmative(tool), "cancel"}]

\* every accept confirms, whatever was selected
is_confirmed_any_accept(res, expected_response) == res.action = "accept"

\* events.py lines 32-45
is_confirmed(res, expected_response) ==
    IF res.action # "accept" THEN FALSE
    ELSE IF res.data.kind = "str" /\ res.data.val = expected_response THEN TRUE
    ELSE IF res.data.kind = "dict" /\ res.data.val = expected_response THEN TRUE
    ELSE FALSE

\* events.py lines 174, 261, 312; reminders.py: result.action != "accept"
WriteConfirmed(tool, res) ==
    IF tool \in CalendarTools
    THEN is_confirmed(res, Affirmative(tool))
    ELSE res.action = "accept"

\* a call of a write tool up to its return, its exception or the await of
\* ctx.elicit: the lookup of the existing item (update, delete), the
\* validation of the arguments (create, update), the changes (update)
WriteCall(tool, found, valid, changes) ==
    LET looked == IF Creates(tool) THEN <<>> ELSE <<RepositoryFind(tool)>>
        raises == (~Creates(tool) /\ ~found) \/ (tool # "delete_calendar_event"
                     /\ tool # "delete_reminder" /\ ~valid)
    IN
    /\ tool_pc # "eliciting"
    /\ tool_call' = [tool |-> tool, found |-> found, valid |-> valid,
                     changes |-> changes]
    /\ elicited' = NoElicitResult
    /\ IF raises
       THEN /\ tool_trace' = looked
            /\ tool_pc' = "raised"
            /\ tool_result' = RaisedText
       ELSE IF Updates(tool) /\ ~changes
            THEN /\ tool_trace' = looked
                 /\ tool_pc' = "returned"
                 /\ tool_result' = NoChangesText
            ELSE /\ tool_trace' = Append(looked, "elicit")
                 /\ tool_pc' = "eliciting"
                 /\ tool_result' = NoText
    /\ UNCHANGED <<wizardVars, hostVars>>

\* ctx.elicit has returned: the write is awaited if the result confirms
WriteElicited(action, data) ==
    LET res == [action |-> action, data |-> data] IN
    /\ tool_pc = "eliciting"
    /\ tool_call.tool \in WriteTools
    /\ data \in ElicitData(tool_call.tool)
    /\ elicited' = res
    /\ IF WriteConfirmed(tool_call.tool, res)
       THEN /\ tool_trace' = Append(tool_trace, RepositoryWrite(tool_call.tool))
            /\ tool_result' = SuccessText
       ELSE /\ tool_trace' = tool_trace
            /\ tool_result' = WriteCancelledText(tool_call.tool)
    /\ tool_pc' = "returned"
    /\ UNCHANGED <<wizardVars, hostVars, tool_call>>

NextWrite ==
    \/ \E tl \in WriteTools, f, v, c \in BOOLEAN : WriteCall(tl, f, v, c)
    \/ \E a \in ElicitActions, tl \in WriteTools :
          \E dt \in ElicitData(tl) : WriteElicited(a, dt)

SpecWrite == InitFresh /\ [][NextWrite]_vars

\* ------------------------------------------------- Mac Messages: the profile
\* A secret reference secret://<backend>/<key>, held in its parts; a value
\* of the environment variable, held as its comma-separated parts.
SecretUris ==
    {[scheme |-> "secret", backend |-> "env", key |-> "K"],
     [scheme |-> "secret", backend |-> "env", key |-> ""],
     [scheme |-> "secret", backend |-> "keychain", key |-> "k"],
     [scheme |-> "secret", backend |-> "vault", key |-> "k"],
     [scheme |-> "plain", backend |-> "env", key |-> "K"]}
EmptyString == << <<>> >>
EnvValues ==
    [set : {TRUE},
     value : {EmptyString,
              << <<"+", "1", "*">> >>,
              << <<" ">>, <<" ", "1", "2">> >>}]

\* the tables a profile file can hold
ProfileTables ==
    [confirmation_policy : Policies,
     allowed_recipients : {<<>>, << <<"1", "2">> >>},
     allow_group_messages : BOOLEAN,
     allowed_recipients_secret : {NoSecretRef} \cup SecretUris]

SecretResolutionError == [ok |-> FALSE, value |-> <<>>]

\* secrets.py lines 12-43
resolve_secret_uri(uri, env) ==
    IF uri.scheme # "secret" THEN SecretResolutionError
    ELSE IF uri.backend = "" \/ uri.key = "" THEN SecretResolutionError
    ELSE IF uri.backend = "env"
         THEN IF ~env.set \/ env.value = EmptyString
              THEN SecretResolutionError
              ELSE [ok |-> TRUE, value |-> env.value]
    ELSE SecretResolutionError

\* str.strip()
RECURSIVE strip(_)
strip(s) ==
    IF s = <<>> THEN s
    ELSE IF Head(s) = " " THEN strip(Tail(s))
    ELSE IF s[Len(s)] = " " THEN strip(SubSeq(s, 1, Len(s) - 1))
    ELSE s

\* config.py lines 110-111
split_patterns(secret_value) ==
    SelectSeq([i \in 1..Len(secret_value) |-> strip(secret_value[i])],
              LAMBDA part : part # <<>>)

\* config.py line 139: tuple(dict.fromkeys(allowed_recipients))
RECURSIVE deduped(_)
deduped(s) ==
    IF s = <<>> THEN s
    ELSE LET front == deduped(SubSeq(s, 1, Len(s) - 1))
             last == s[Len(s)]
         IN  IF \E i \in 1..Len(front) : front[i] = last
             THEN front
             ELSE Append(front, last)

ConfigError == [ok |-> FALSE, config |-> NoProfile]

\* the resolution error swallowed: the allowlist of the file alone is used
get_runtime_config_fail_open(table, env) ==
    IF table = NoProfile
    THEN [ok |-> TRUE,
          config |-> [confirmation_policy |-> "external-only",
                      allowed_recipients |-> <<>>,
                      allow_group_messages |-> TRUE]]
    ELSE LET ref == table.allowed_recipients_secret
             secret == IF ref = NoSecretRef THEN SecretResolutionError
                       ELSE resolve_secret_uri(ref, env)
             extra == IF secret.ok THEN split_patterns(secret.value) ELSE <<>>
         IN  [ok |-> TRUE,
              config |-> [confirmation_policy |-> table.confirmation_policy,
                          allowed_recipients |->
                              deduped(table.allowed_recipients \o extra),
                          allow_group_messages |-> table.allow_group_messages]]

\* config.py lines 114-147, for a profile file whose other fields parse
get_runtime_config(table, env) ==
    IF table = NoProfile
    THEN [ok |-> TRUE,
          config |-> [confirmation_policy |-> "external-only",
                      allowed_recipients |-> <<>>,
                      allow_group_messages |-> TRUE]]
    ELSE LET ref == table.allowed_recipients_secret
             secret == IF ref = NoSecretRef THEN [ok |-> TRUE, value |-> <<>>]
                       ELSE resolve_secret_uri(ref, env)
         IN  IF ref # NoSecretRef /\ (ref.scheme # "secret" \/ ~secret.ok)
             THEN ConfigError
             ELSE [ok |-> TRUE,
                   config |-> [confirmation_policy |-> table.confirmation_policy,
                               allowed_recipients |->
                                   deduped(table.allowed_recipients
                                           \o split_patterns(secret.value)),
                               allow_group_messages |-> table.allow_group_messages]]

\* test_config.py lines 8-12: the profile file is written before the server is used
write_profile(table) ==
    /\ tool_pc = "idle"
    /\ profile_file' = table
    /\ UNCHANGED <<besideConfig, environ>>

\* monkeypatch.setenv of test_config.py line 43
setenv(value) ==
    /\ tool_pc = "idle"
    /\ environ' = value
    /\ UNCHANGED <<besideConfig, profile_file>>

\* server.py lines 104-135 with the profile found on this host
SendWithProfile(recipient, group_chat) ==
    LET loaded_config == get_runtime_config(profile_file, environ) IN
    IF loaded_config.ok
    THEN SendCall(recipient, group_chat, loaded_config.config)
    ELSE SendConfigError(recipient, group_chat)

NextProfile ==
    \/ \E tb \in ProfileTables : write_profile(tb)
    \/ \E ev \in EnvValues : setenv(ev)
    \/ \E rc \in Recipients, g \in BOOLEAN : SendWithProfile(rc, g)
    \/ \E a \in ElicitActions : SendElicited(a)

SpecProfile == InitFresh /\ [][NextProfile]_vars

\* the profile names a secret that resolve_secret_uri does not resolve
SecretUnresolved ==
    /\ profile_file # NoProfile
    /\ profile_file.allowed_recipients_secret # NoSecretRef
    /\ ~resolve_secret_uri(profile_file.allowed_recipients_secret, environ).ok

\* ------------------------------------------------- Google Maps: consent
\* maps_geocode, whose shape the other six tools of tools_maps.py share: cache
\* lookup, consent, API key, network call.
Addresses == {"x", "y"}

CachedText == "cached"
GeocodedText == "geocoded"
MapsErrorText == "Error"

Awaiting == {"consenting", "keying"}

\* cancel taken for consent
ConsentGivenUnlessDeclined(action) == action # "decline"

\* tools_maps.py lines 86-94: accept stores the approval, anything else raises
ConsentGiven(action) == action = "accept"

\* tools_maps.py line 125 on: get_json and what follows it; ok tells whether
\* the API answered with status OK
Fetch(trace, address, ok) ==
    /\ tool_trace' = Append(trace, "get_json")
    /\ tool_pc' = "returned"
    /\ tool_result' = IF ok THEN GeocodedText ELSE MapsErrorText
    /\ maps_cache' = IF ok THEN maps_cache \cup {address} ELSE maps_cache

\* tools_maps.py lines 59-73 and 124 on: the stored key, or the key prompt
KeyThenFetch(trace, address, ok) ==
    IF api_key_stored
    THEN Fetch(trace, address, ok) /\ UNCHANGED api_key_stored
    ELSE /\ tool_trace' = Append(trace, "elicit_key")
         /\ tool_pc' = "keying"
         /\ tool_result' = NoText
         /\ UNCHANGED <<maps_cache, api_key_stored>>

\* tools_maps.py lines 103-123 and 76-83: a call up to its first await of an
\* elicitation, or to its return
MapsCall(session, address, ok) ==
    /\ tool_pc \notin Awaiting
    /\ tool_call' = [tool |-> "maps_geocode", session |-> session,
                     address |-> address]
    /\ elicited' = NoElicitResult
    /\ IF address \in maps_cache
       THEN /\ tool_trace' = <<>>
            /\ tool_pc' = "returned"
            /\ tool_result' = CachedText
            /\ UNCHANGED <<maps_cache, api_key_stored>>
       ELSE IF external_call_approved[session]
            THEN KeyThenFetch(<<>>, address, ok)
            ELSE /\ tool_trace' = <<"elicit_consent">>
                 /\ tool_pc' = "consenting"
                 /\ tool_result' = NoText
                 /\ UNCHANGED <<maps_cache, api_key_stored>>
    /\ UNCHANGED <<besideMaps, external_call_approved>>

\* tools_maps.py lines 85-94 and 142-143: the consent prompt has returned
MapsConsent(action, ok) ==
    /\ tool_pc = "consenting"
    /\ elicited' = [action |-> action, data |-> "-"]
    /\ IF ConsentGiven(action)
       THEN /\ external_call_approved' =
                   [external_call_approved EXCEPT ![tool_call.session] = TRUE]
            /\ KeyThenFetch(tool_trace, tool_call.address, ok)
       ELSE /\ tool_pc' = "returned"
            /\ tool_result' = MapsErrorText
            /\ UNCHANGED <<tool_trace, mapsVars>>
    /\ UNCHANGED <<besideMaps, tool_call>>

\* credentials.py lines 21-42: the key prompt has returned; an accepted blank
\* key is asked for again
MapsKey(action, blank, ok) ==
    /\ tool_pc = "keying"
    /\ elicited' = [action |-> action, data |-> IF blank THEN "" ELSE "key"]
    /\ IF action = "accept"
       THEN IF blank
            THEN /\ Calls("elicit_key") < MaxPrompts
                 /\ tool_trace' = Append(tool_trace, "elicit_key")
                 /\ UNCHANGED <<tool_pc, tool_result, maps_cache, api_key_stored>>
            ELSE /\ api_key_stored' = TRUE
                 /\ Fetch(tool_trace, tool_call.address, ok)
       ELSE /\ tool_pc' = "returned"
            /\ tool_result' = MapsErrorText
            /\ UNCHANGED <<tool_trace, maps_cache, api_key_stored>>
    /\ UNCHANGED <<besideMaps, tool_call, external_call_approved>>

\* cache.py lines 29-39: an entry older than the timeout is dropped
MapsCacheExpires(address) ==
    /\ address \in maps_cache
    /\ maps_cache' = maps_cache \ {address}
    /\ UNCHANGED <<besideMaps, callVars, external_call_approved, api_key_stored>>

NextMaps ==
    \/ \E s \in Sessions, ad \in Addresses, ok \in BOOLEAN : MapsCall(s, ad, ok)
    \/ \E a \in ElicitActions, ok \in BOOLEAN : MapsConsent(a, ok)
    \/ \E a \in ElicitActions, b, ok \in BOOLEAN : MapsKey(a, b, ok)
    \/ \E ad \in Addresses : MapsCacheExpires(ad)

SpecMaps == InitFresh /\ [][NextMaps]_vars

MapsCalled == tool_call.tool = "maps_geocode"

\* ------------------------------------------------- Find My: the client provider
\* AppleClientProvider.get_client, whose shape get_http_client of lazy_auth.py
\* shares: fast path, init lock, second check, initialisation. The tasks are
\* coroutines of one event loop: each action runs from one await to the next.
ICLOUD_TOOLS == {"list_devices", "get_device_info", "refresh_cache"}
NO_AUTH_TOOLS == {"clear_stored_credentials"}
FindMyTools == ICLOUD_TOOLS \cup NO_AUTH_TOOLS

\* the devices tools only
NeedsAuthDevicesOnly(tool) == tool \in {"list_devices", "get_device_info"}

\* middleware_auth.py lines 32-40
NeedsAuth(tool) == tool \notin NO_AUTH_TOOLS /\ tool \in ICLOUD_TOOLS

\* no mutual exclusion
LockFreeAlways == TRUE

\* client_provider.py line 32: the lock can be taken
LockFree == lock = 0

\* the lock stays with the task whose initialisation failed
LockKeptAfterFailure(holder) == holder

\* client_provider.py line 32: leaving the async with block on an exception
LockAfterFailure(holder) == 0

\* every session under one key
CacheKeyShared(session_id) == "s1"

\* cache.py lines 13 and 26: f"devices:{session_id}"
CacheKey(session_id) == session_id

\* cache.py lines 11-21: the lookup's answer
get_cached_devices(cache, session_id) ==
    LET e == cache[CacheKey(session_id)]
    IN  [hit |-> e.present /\ e.fresh, owner |-> IF e.present /\ e.fresh THEN e.owner ELSE "-"]

\* cache.py lines 17-20: the cache after the lookup, an expired entry deleted
AfterLookup(cache, session_id) ==
    LET e == cache[CacheKey(session_id)]
    IN  IF e.present /\ ~e.fresh
        THEN [cache EXCEPT ![CacheKey(session_id)] = NoEntry]
        ELSE cache

\* cache.py lines 24-27
cache_devices(cache, session_id) ==
    [cache EXCEPT ![CacheKey(session_id)] =
        [present |-> TRUE, fresh |-> TRUE, owner |-> session_id]]

\* cache.py lines 30-31
clear_all_caches == [s \in Sessions |-> NoEntry]

\* what a task does once get_authenticated_client has returned client c to it:
\* middleware_auth.py lines 47-50, or tools_devices.py lines 39-69
Obtained(t, c) ==
    IF task[t].stage = "middleware"
    THEN /\ task' = [task EXCEPT ![t].pc = "body", ![t].authed = TRUE,
                                 ![t].client = c]
         /\ UNCHANGED device_cache
    ELSE /\ task' = [task EXCEPT ![t].pc = "returned", ![t].outcome = "ok",
                                 ![t].client = c]
         /\ device_cache' = cache_devices(device_cache, task[t].session)

\* middleware_auth.py lines 27-44: a tool call enters the middleware
fm_call(t, tool, has_ctx) ==
    /\ task[t].pc \in {"idle", "returned", "failed"}
    /\ LET call == [IdleTask EXCEPT !.tool = tool, !.session = SessionOf(t)]
       IN  task' = [task EXCEPT ![t] =
               IF ~NeedsAuth(tool) THEN [call EXCEPT !.pc = "body"]
               ELSE IF ~has_ctx
                    THEN [call EXCEPT !.pc = "failed", !.outcome = "ToolError"]
                    ELSE [call EXCEPT !.pc = "auth", !.stage = "middleware",
                                      !.attempted = TRUE]]
    /\ UNCHANGED <<besideFindMy, client, lock, auth_calls, created, was_reset,
                   credentials, device_cache, reauth_pending>>

\* client_provider.py lines 28-34: get_client up to its first await
get_client(t) ==
    /\ task[t].pc = "auth"
    /\ IF client # 0
       THEN /\ Obtained(t, client)
            /\ UNCHANGED <<lock, auth_calls, reauth_pending>>
       ELSE IF LockFree
            THEN /\ auth_calls < MaxAuthCalls
                 /\ lock' = t
                 /\ auth_calls' = auth_calls + 1
                 /\ reauth_pending' = FALSE
                 /\ task' = [task EXCEPT ![t].pc = "initializing"]
                 /\ UNCHANGED device_cache
            ELSE /\ task' = [task EXCEPT ![t].pc = "waiting", ![t].waited = TRUE]
                 /\ UNCHANGED <<lock, auth_calls, reauth_pending, device_cache>>
    /\ UNCHANGED <<besideFindMy, client, created, was_reset, credentials>>

\* client_provider.py lines 32-35: a waiting task is given the lock
lock_granted(t) ==
    /\ task[t].pc = "waiting"
    /\ LockFree
    /\ IF client # 0
       THEN /\ Obtained(t, client)
            /\ UNCHANGED <<lock, auth_calls, reauth_pending>>
       ELSE /\ auth_calls < MaxAuthCalls
            /\ lock' = t
            /\ auth_calls' = auth_calls + 1
            /\ reauth_pending' = FALSE
            /\ task' = [task EXCEPT ![t].pc = "initializing"]
            /\ UNCHANGED device_cache
    /\ UNCHANGED <<besideFindMy, client, created, was_reset, credentials>>

\* client_provider.py lines 34-35: create_authenticated_client returns a client
init_succeeds(t) ==
    /\ task[t].pc = "initializing"
    /\ created' = created + 1
    /\ client' = created + 1
    /\ lock' = IF lock = t THEN 0 ELSE lock
    /\ credentials' = TRUE
    /\ Obtained(t, created + 1)
    /\ UNCHANGED <<besideFindMy, auth_calls, was_reset, reauth_pending>>

\* client_provider.py lines 32-34, auth_flow.py lines 71-79, middleware_auth.py
\* lines 51-53: create_authenticated_client raises; stored tells whether the
\* prompt had stored the credentials it was given
init_fails(t, stored) ==
    /\ task[t].pc = "initializing"
    /\ lock' = IF lock = t THEN LockAfterFailure(t) ELSE lock
    /\ credentials' = (credentials \/ stored)
    /\ task' = [task EXCEPT ![t].pc = "failed",
                            ![t].outcome = IF task[t].stage = "middleware"
                                           THEN "ToolError" ELSE "raised"]
    /\ UNCHANGED <<besideFindMy, client, auth_calls, created, was_reset,
                   device_cache, reauth_pending>>

\* tools_devices.py lines 31-38 and 78-101, tools_admin.py lines 22-59: the
\* tool body up to its return or to its call of get_authenticated_client;
\* found tells whether get_device_info finds its discovery id in the list
fm_body(t, found) ==
    /\ task[t].pc = "body"
    /\ LET res == get_cached_devices(device_cache, task[t].session)
           ran == [task[t] EXCEPT !.body = TRUE]
       IN  CASE task[t].tool = "list_devices" ->
                  /\ device_cache' = AfterLookup(device_cache, task[t].session)
                  /\ task' = [task EXCEPT ![t] =
                        IF res.hit
                        THEN [ran EXCEPT !.pc = "returned", !.outcome = "cached",
                                         !.hit = TRUE, !.owner = res.owner]
                        ELSE [ran EXCEPT !.pc = "auth", !.stage = "body"]]
                  /\ UNCHANGED <<credentials, reauth_pending>>
             [] task[t].tool = "get_device_info" ->
                  /\ device_cache' = AfterLookup(device_cache, task[t].session)
                  /\ task' = [task EXCEPT ![t] =
                        IF res.hit /\ found
                        THEN [ran EXCEPT !.pc = "returned", !.outcome = "ok",
                                         !.hit = TRUE, !.owner = res.owner]
                        ELSE [ran EXCEPT !.pc = "failed", !.outcome = "ValueError",
                                         !.hit = res.hit, !.owner = res.owner]]
                  /\ UNCHANGED <<credentials, reauth_pending>>
             [] task[t].tool = "refresh_cache" ->
                  /\ device_cache' = clear_all_caches
                  /\ task' = [task EXCEPT ![t] =
                                 [ran EXCEPT !.pc = "returned", !.outcome = "ok"]]
                  /\ UNCHANGED <<credentials, reauth_pending>>
             [] task[t].tool = "clear_stored_credentials" ->
                  /\ credentials' = FALSE
                  /\ reauth_pending' = TRUE
                  /\ task' = [task EXCEPT ![t] =
                                 [ran EXCEPT !.pc = "returned", !.outcome = "ok"]]
                  /\ UNCHANGED device_cache
    /\ UNCHANGED <<besideFindMy, client, lock, auth_calls, created, was_reset>>

\* client_provider.py lines 37-38 and 56-57
reset_auth_state_only ==
    /\ client # 0    \* on a provider without a client the reset changes nothing
    /\ was_reset' = TRUE
    /\ client' = 0
    /\ UNCHANGED <<besideFindMy, task, lock, auth_calls, created, credentials,
                   device_cache, reauth_pending>>

\* cache.py lines 15-17: CACHE_TIMEOUT_MINUTES have passed since the entry
\* was cached
cache_ages(s) ==
    /\ device_cache[s].present
    /\ device_cache[s].fresh
    /\ device_cache' = [device_cache EXCEPT ![s].fresh = FALSE]
    /\ UNCHANGED <<besideFindMy, task, client, lock, auth_calls, created, was_reset,
                   credentials, reauth_pending>>

NextFindMy ==
    \/ \E t \in Tasks, tool \in FindMyTools, c \in BOOLEAN : fm_call(t, tool, c)
    \/ \E t \in Tasks : get_client(t)
    \/ \E t \in Tasks : lock_granted(t)
    \/ \E t \in Tasks : init_succeeds(t)
    \/ \E t \in Tasks, stored \in BOOLEAN : init_fails(t, stored)
    \/ \E t \in Tasks, found \in BOOLEAN : fm_body(t, found)
    \/ reset_auth_state_only
    \/ \E s \in Sessions : cache_ages(s)

SpecFindMy == InitFresh /\ [][NextFindMy]_vars

Initializing == {t \in Tasks : task[t].pc = "initializing"}

\* ------------------------------------------------- execute again after an abort
\* A registry of optional steps, built before the first call; run 1 is the
\* first call of execute and run 2 the call that follows its abort, on the
\* same session and wizard_id.
RerunLen == MaxSteps + 1

RerunSteps == {s \in FormStep : ~s.is_required /\ s.step_id \in {"a", "b"}}

InitRerun ==
    /\ steps \in [1..RerunLen -> RerunSteps]
    /\ NoRunYet
    /\ store = StoreMissing

Rerun == pc[1] = "aborted" /\ pc[2] = "idle" /\ Start(2)

StepRerun(r) ==
    \/ SkipAnswered(r)
    \/ SkipHidden(r)
    \/ Ask(r)
    \/ \E v \in Values : Accept(r, v)
    \/ Decline(r)
    \/ Cancel(r)
    \/ Complete(r)

NextRerun ==
    \/ Call(1)
    \/ Rerun
    \/ \E r \in Runs : StepRerun(r)

SpecRerun == InitRerun /\ [][NextRerun]_vars

Asked(r) == {j \in DOMAIN step_state[r] : step_state[r][j] \in AskedStates}

TypeOK ==
    /\ steps \in Seq(FormStep) /\ Len(steps) <= MaxSteps
    /\ \A r \in Runs :
        /\ pc[r] \in {"idle", "loop", "asking", "done", "aborted"}
        /\ idx[r] \in 1..(Len(steps) + 1)
        /\ DOMAIN session_data[r] \subseteq StepIds
        /\ attempts[r] \in 0..MaxAttempts

\* --------------------------------------------------------------- properties
Indices(r) == DOMAIN step_state[r]
StepId(j) == steps[j].step_id
Stored == LoadState(store)
UniqueStepIds ==
    \A j, k \in 1..Len(steps) : StepId(j) = StepId(k) => j = k

\* C1 (idempotent resume): a run never elicits a step whose step_id was in the
\* session state it loaded, and the map it returns carries every loaded answer
\* with the value that was persisted.
IdempotentResume ==
    \A r \in Runs :
        /\ \A j \in Asked(r) : StepId(j) \notin DOMAIN loaded[r]
        /\ pc[r] = "done" =>
             \A k \in DOMAIN loaded[r] :
                 k \in DOMAIN result[r] /\ result[r][k] = loaded[r][k]

\* a resumed run (answers loaded from an earlier, aborted run) that elicited a
\* remaining step and returned
IdempotentResumeWitness ==
    /\ pc[1] = "done"
    /\ loaded[1] # EmptyMap
    /\ \E j \in Indices(1) : step_state[1][j] = "accept"
    /\ \E j \in Indices(1) : step_state[1][j] = "answered"

\* C2 as claimed (progressive disclosure in any run, fresh or resumed), stated
\* for registries with unique step_ids: a step whose condition is false when the
\* loop reaches it is never elicited and its step_id is not in the returned map.
ProgressiveDisclosureEveryRun ==
    UniqueStepIds =>
        \A r \in Runs : \A j \in condFalse[r] :
            /\ j \notin Asked(r)
            /\ pc[r] = "done" => StepId(j) \notin DOMAIN result[r]

\* C2 amended (progressive disclosure): a step whose condition is false when
\* the loop reaches it is never elicited; its step_id is in the returned map
\* only if an answer under that step_id was already present when the step was
\* reached, or was accepted in this run at another step with the same step_id.
ProgressiveDisclosure ==
    \A r \in Runs : \A j \in condFalse[r] :
        /\ j \notin Asked(r)
        /\ (pc[r] = "done" /\ StepId(j) \in DOMAIN result[r]) =>
             \/ step_state[r][j] = "answered"
             \/ \E k \in Indices(r) \ {j} :
                    StepId(k) = StepId(j) /\ step_state[r][k] = "accept"

\* a run returned after skipping a hidden step whose step_id is not in the map,
\* having elicited another step
ProgressiveDisclosureWitness ==
    /\ pc[1] = "done"
    /\ \E j \in condFalse[1] :
           step_state[1][j] = "skipped" /\ StepId(j) \notin DOMAIN result[1]
    /\ \E j \in Indices(1) : step_state[1][j] = "accept"

\* C3 (required decline aborts): once a required step is declined the run is
\* aborted with McpError -32600 naming that step_id, and no later registry
\* index is elicited in that run.
RequiredDeclineAborts ==
    \A r \in Runs : \A j \in Indices(r) :
        (step_state[r][j] = "decline" /\ steps[j].is_required) =>
            /\ pc[r] = "aborted"
            /\ err[r] = McpError(CodeRequiredDeclined, StepId(j))
            /\ \A k \in Asked(r) : k <= j
            /\ pending[r] = {}

\* a required step declined with registered steps after it
RequiredDeclineAbortsWitness ==
    \E j \in Indices(1) :
        /\ step_state[1][j] = "decline"
        /\ steps[j].is_required
        /\ j < Len(steps)
        /\ ~AlreadyAnswered(steps[j + 1], session_data[1])
        /\ ~Hidden(steps[j + 1], session_data[1])

\* C4 as claimed (optional decline skips): a declined optional step does not
\* abort the run, records no answer, and its step_id is absent from the map
\* the run returns.
OptionalDeclineSkips ==
    \A r \in Runs : \A j \in Indices(r) :
        (step_state[r][j] = "decline" /\ ~steps[j].is_required) =>
            /\ idx[r] > j
            /\ pc[r] = "done" => StepId(j) \notin DOMAIN result[r]

\* C5 (cancel is absolute): once any step is cancelled the run is aborted with
\* McpError -32000 and no other elicit is made or left in flight in that run.
CancelIsAbsolute ==
    \A r \in Runs : \A j \in Indices(r) :
        step_state[r][j] = "cancel" =>
            /\ pc[r] = "aborted"
            /\ err[r] = McpError(CodeCancelled, "-")
            /\ \A k \in Asked(r) : k <= j
            /\ pending[r] = {}

\* an optional step cancelled after validation retries, with a step after it
\* that the loop would have elicited
CancelIsAbsoluteWitness ==
    \E j \in Indices(1) :
        /\ step_state[1][j] = "cancel"
        /\ ~steps[j].is_required
        /\ attempts[1] > 0
        /\ j < Len(steps)
        /\ ~AlreadyAnswered(steps[j + 1], session_data[1])
        /\ ~Hidden(steps[j + 1], session_data[1])

McpCodes == {CodeRequiredDeclined, CodeCancelled, CodeUnknownAction}
AcceptedIds(st) == {StepId(j) : j \in {i \in DOMAIN st : st[i] = "accept"}}

\* C6 (validation retry preserves prior progress): a failed validation leaves
\* the session state as it is; no persisted answer is changed or removed by any
\* step but the completion clear; after each accepted step the session state is
\* exactly the loaded answers plus the answers accepted in this run.
ValidationRetryPreservesProgress ==
    [][ /\ \A r \in Runs : attempts'[r] = attempts[r] + 1 => store' = store
        /\ (\A r \in Runs : ~(pc[r] = "loop" /\ pc'[r] = "done")) =>
             \A k \in DOMAIN LoadState(store) :
                 /\ k \in DOMAIN LoadState(store')
                 /\ LoadState(store')[k] = LoadState(store)[k]
        /\ \A r \in Runs :
             (\E j \in Indices(r) :
                  step_state[r][j] = "asking" /\ step_state'[r][j] = "accept") =>
                 /\ store' = StoreDict(session_data'[r])
                 /\ DOMAIN session_data'[r] =
                        DOMAIN loaded[r] \cup AcceptedIds(step_state'[r])
                 /\ \A k \in DOMAIN session_data[r] :
                        session_data'[r][k] = session_data[r][k]
      ]_vars

\* a step after the first accepted after more than one failed validation, with
\* the earlier answers and its own in the session state
ValidationRetryWitness ==
    \E j \in Indices(1) :
        /\ j > 1
        /\ step_state[1][j] = "accept"
        /\ idx[1] = j + 1 /\ pc[1] = "loop"
        /\ attempts[1] > 1
        /\ Cardinality(DOMAIN Stored) > 1

\* C7 (completion clears session): when execute returns, the session state is
\* the empty map, and the execute that follows starts at the first step with
\* no answers.
CompletionClearsSession ==
    [][ \A r \in Runs :
          /\ pc'[r] = "done" => store' = StoreDict(EmptyMap)
          /\ (pc[r] = "done" /\ pc'[r] = "loop") =>
                 session_data'[r] = EmptyMap /\ idx'[r] = 1
      ]_vars

\* execute returned a map of two answers, one of them from an earlier run, and
\* the session state is empty
CompletionClearsSessionWitness ==
    /\ pc[1] = "done"
    /\ Cardinality(DOMAIN result[1]) > 1
    /\ loaded[1] # EmptyMap
    /\ store = StoreDict(EmptyMap)

\* C8 (an aborted run does not clear the session): a required decline, a cancel
\* or an unknown action writes nothing; the session state then holds exactly
\* the answers of the run, and the execute that follows starts from them.
AbortKeepsSession ==
    [][ \A r \in Runs :
          /\ (pc'[r] = "aborted" /\ err'[r].code \in McpCodes) =>
                 /\ LoadState(store') = session_data'[r]
                 /\ pc[r] # "aborted" => store' = store
          /\ (pc[r] = "aborted" /\ err[r].code \in McpCodes /\ pc'[r] = "loop") =>
                 session_data'[r] = session_data[r]
      ]_vars

\* a run aborted by McpError after it accepted an answer
AbortKeepsSessionWitness ==
    /\ pc[1] = "aborted"
    /\ err[1].code \in McpCodes
    /\ \E j \in Indices(1) : step_state[1][j] = "accept"
    /\ Stored = session_data[1]

\* C9 (ordering): every elicit is for a registry index no lower than any index
\* elicited before in the run; an index is elicited again only as the retry that
\* directly follows its own failed validation; at most one elicit is in flight.
Elicits(r) ==
    pc'[r] = "asking" /\ (pc[r] # "asking" \/ attempts'[r] # attempts[r])

RegistrationOrder ==
    [][ \A r \in Runs :
          /\ Cardinality(pending'[r]) <= 1
          /\ Elicits(r) =>
               /\ pending'[r] = {idx'[r]}
               /\ \A k \in Asked(r) : k <= idx'[r]
               /\ idx'[r] \in Asked(r) =>
                      /\ pc[r] = "asking"
                      /\ idx[r] = idx'[r]
                      /\ attempts'[r] = attempts[r] + 1
      ]_vars

\* the second step elicited again after a failed validation, the first step
\* having been elicited before it
RegistrationOrderWitness ==
    /\ pc[1] = "asking"
    /\ idx[1] = 2
    /\ attempts[1] > 0
    /\ Cardinality(Asked(1)) > 1

\* C10 (immediate persistence): while an elicit is in flight, and when the run
\* has stopped at one, the session state holds every answer accepted earlier in
\* the run.
ImmediatePersistence ==
    \A r \in Runs :
        pc[r] \in {"asking", "aborted"} =>
            \A j \in Indices(r) :
                step_state[r][j] = "accept" =>
                    /\ StepId(j) \in DOMAIN Stored
                    /\ Stored[StepId(j)] = session_data[r][StepId(j)]

\* the elicit of the second step in flight, the answer of the first step
\* accepted earlier in the run
ImmediatePersistenceWitness ==
    /\ pc[1] = "asking"
    /\ idx[1] = 2
    /\ step_state[1][1] = "accept"

\* C11 (concurrent runs can clobber each other): a run never takes over what
\* another run wrote after its start, and every write puts the writer's own
\* copy (or the empty map on completion) in place of whatever is stored, so
\* overlapping runs lose each other's updates.
WriteBackOwnCopy ==
    [][ \A r \in Runs :
          /\ (pc[r] # "idle" /\ pc'[r] \notin {"idle", "done"}) =>
                 DOMAIN session_data'[r] =
                     DOMAIN loaded'[r] \cup AcceptedIds(step_state'[r])
          /\ (store' # store /\ pc'[r] # pc[r]) =>
                 store' = StoreDict(IF pc'[r] = "done" THEN EmptyMap
                                    ELSE session_data'[r])
      ]_vars

\* the lost update: run 1 accepted and persisted an answer and is still at
\* work, and the session state, last written by run 2 with its own answers,
\* no longer holds it
LostUpdateWitness ==
    \E j \in Indices(1) :
        /\ step_state[1][j] = "accept"
        /\ pc[1] \in {"loop", "asking"}
        /\ pc[2] \in {"loop", "asking"}
        /\ store = StoreDict(session_data[2])
        /\ session_data[2] # EmptyMap
        /\ StepId(j) \notin DOMAIN Stored

\* C12 as claimed (returned keys): the map a completed run returns has only
\* step_ids of registered steps as keys, each of them answered in this run or
\* in the loaded session state, and has no key for a step that this run
\* skipped by its condition or that was declined as optional.
ReturnedKeysAreAnswered ==
    \A r \in Runs :
        pc[r] = "done" =>
            /\ DOMAIN result[r] \subseteq {StepId(j) : j \in Indices(r)}
            /\ DOMAIN result[r] =
                   DOMAIN loaded[r] \cup AcceptedIds(step_state[r])
            /\ \A j \in Indices(r) :
                   step_state[r][j] \in {"skipped", "decline"} =>
                       StepId(j) \notin DOMAIN result[r]

\* C13 as claimed (collaborator failures propagate): once the session store
\* or the ask-user adapter has raised in a run, the run is aborted with that
\* failure and has no elicit in flight; the failure is never followed by
\* another elicit of the step.
CollaboratorFailuresPropagate ==
    \A r \in Runs :
        /\ \A j \in Indices(r) :
              step_state[r][j] \in {"raised", "store_failed"} =>
                  /\ pc[r] = "aborted"
                  /\ pending[r] = {}
                  /\ err[r] \in {ElicitFailure} \cup
                                {StoreFailure(k) : k \in FailureKinds}
        /\ err[r] \in {StoreFailure(k) : k \in FailureKinds} =>
              pc[r] = "aborted" /\ pending[r] = {}

\* C14 (no attempt cap, termination): while a step is being asked, a failed
\* validation leaves the run asking the same step however many failures came
\* before; the run stops asking a step only when the response is an accept, a
\* decline, a cancel or an unknown action; and a run in which every asked step
\* at some time gets a response that passes validation ends completed or
\* aborted.
RetryUntilValidResponse ==
    /\ [][ \A r \in SeqRuns :
             pc[r] = "asking" =>
                 /\ pc'[r] = "asking" =>
                        /\ idx'[r] = idx[r]
                        /\ pending'[r] = {idx[r]}
                        /\ session_data'[r] = session_data[r]
                 /\ pc'[r] # "asking" =>
                        step_state'[r][idx[r]] \in
                            {"accept", "decline", "cancel", "other"}
         ]_vars
    /\ \A r \in SeqRuns :
          (pc[r] \in {"loop", "asking"}) ~> (pc[r] \in {"done", "aborted"})

\* a step asked once more after as many failed validations as the model counts
RetryUntilValidResponseWitness ==
    /\ pc[1] = "asking"
    /\ attempts[1] = MaxAttempts
    /\ current_message[1] = RetryMessage(CurStep(1), "e2")
    /\ idx[1] = 2
    /\ step_state[1][1] = "decline"

\* C15 as claimed (unique step_ids): whatever add_step calls were made, the
\* registry holds as many different step_ids as it holds steps, a duplicate
\* step_id being refused at registration.
RegisteredStepIdsUnique ==
    Cardinality({StepId(j) : j \in 1..Len(steps)}) = Len(steps)

\* C16 as claimed (malformed steps are refused at construction): no registered
\* step has an empty step_id or a multi-select schema without options, and no
\* such step is ever elicited.
NoMalformedStep ==
    /\ \A j \in 1..Len(steps) :
          StepId(j) # EmptyId /\ ~Malformed(steps[j].schema)
    /\ \A r \in Runs : \A j \in pending[r] :
          StepId(j) # EmptyId /\ ~Malformed(steps[j].schema)

\* C17 (unknown action aborts): once an elicit has returned an action that is
\* none of accept, decline and cancel, the run is aborted with McpError -32603,
\* a code that is neither the decline nor the cancel code; no answer is
\* recorded for that step, in the run's map or in the session state, and no
\* later step is asked.
UnknownActionAborts ==
    /\ CodeUnknownAction \notin {CodeRequiredDeclined, CodeCancelled}
    /\ \A r \in Runs : \A j \in Indices(r) :
          step_state[r][j] = "other" =>
              /\ pc[r] = "aborted"
              /\ err[r] = McpError(CodeUnknownAction, "-")
              /\ pending[r] = {}
              /\ StepId(j) \notin DOMAIN session_data[r] \cup DOMAIN Stored
              /\ \A k \in Indices(r) : k > j => step_state[r][k] = "pending"

\* an unknown action answers the second step after the first was accepted
UnknownActionAbortsWitness ==
    /\ Indices(1) = {1, 2}
    /\ step_state[1][1] = "accept"
    /\ step_state[1][2] = "other"
    /\ ~steps[2].is_required

\* C18 (missing or non-mapping session state loads as empty): as long as the
\* value under wizard_id is missing or is no dict, a run has loaded the empty
\* map, has passed over no step as already answered, and has asked every step
\* before its position unless the step's condition is false on the empty map;
\* the first accept puts a dict holding just that answer in place of the value.
NonMappingLoadsAsEmpty ==
    /\ [](\A r \in Runs :
            (pc[r] # "idle" /\ store.kind # "dict") =>
                /\ loaded[r] = EmptyMap
                /\ session_data[r] = EmptyMap
                /\ \A j \in Indices(r) :
                      /\ step_state[r][j] # "answered"
                      /\ j < idx[r] =>
                            IF Hidden(steps[j], EmptyMap)
                            THEN step_state[r][j] = "skipped"
                            ELSE step_state[r][j] \in AskedStates)
    /\ [][ \A r \in Runs : \A j \in Indices(r) :
             (store.kind # "dict" /\ step_state'[r][j] = "accept") =>
                 /\ store' = StoreDict(Put(EmptyMap, StepId(j), session_data'[r][StepId(j)]))
                 /\ Stored' = session_data'[r]
         ]_vars

\* a non-dict value is stored, the first step was declined as optional and the
\* second step is being asked
NonMappingLoadsAsEmptyWitness ==
    /\ store = StoreOther
    /\ pc[1] = "asking"
    /\ idx[1] = 2
    /\ step_state[1][1] = "decline"

\* C19 (Mac Messages send gating): a call of send_message_tool elicits at most
\* once and calls the underlying send at most once; it calls the send only if
\* group_chat is false or the profile allows group messages, and only if the
\* policy requires no confirmation or the elicitation returned accept; after a
\* decline, a cancel or any other action nothing is sent.
SendGating ==
    tool_call.tool = "send_message" =>
        /\ Calls("elicit") <= 1
        /\ Calls("core_send_message") <= 1
        /\ Calls("core_send_message") = 1 =>
              /\ ~tool_call.group_chat \/ tool_call.config.allow_group_messages
              /\ \/ /\ ~requires_confirmation(
                          tool_call.config.confirmation_policy,
                          tool_call.recipient, tool_call.group_chat,
                          tool_call.config.allowed_recipients)
                    /\ Calls("elicit") = 0
                 \/ /\ Calls("elicit") = 1
                    /\ elicited.action = "accept"
        /\ elicited.action \in ElicitActions \ {"accept"} =>
              /\ Calls("core_send_message") = 0
              /\ tool_result \in {DeclinedText, CancelledText, NotConfirmedText}

\* a group message sent after the user accepted the confirmation
SendGatingWitness ==
    /\ tool_call.tool = "send_message"
    /\ tool_pc = "returned"
    /\ tool_call.group_chat
    /\ tool_trace = <<"elicit", "core_send_message">>
    /\ elicited.action = "accept"

\* C20 (write tools ask before they write): a create, update or delete tool
\* of the Apple Calendar and Apple Reminders servers calls the repository
\* write at most once, after its confirmation elicitation, and only if the
\* elicitation returned accept and, for a calendar tool, the affirmative
\* option was selected; after a cancel or a decline the write is not called
\* and the tool returns its 'cancelled' text.
WriteAfterConfirmation ==
    tool_call.tool \in WriteTools =>
        LET write == RepositoryWrite(tool_call.tool) IN
        /\ Calls(write) <= 1
        /\ Calls("elicit") <= 1
        /\ Calls(write) = 1 =>
              /\ \E i, j \in 1..Len(tool_trace) :
                    i < j /\ tool_trace[i] = "elicit" /\ tool_trace[j] = write
              /\ elicited.action = "accept"
              /\ tool_call.tool \in CalendarTools =>
                    elicited.data.val = Affirmative(tool_call.tool)
        /\ elicited.action \in {"cancel", "decline"} =>
              /\ Calls(write) = 0
              /\ tool_result = WriteCancelledText(tool_call.tool)

\* an event deleted after the affirmative option was accepted
WriteAfterConfirmationWitness ==
    /\ tool_call.tool = "delete_calendar_event"
    /\ tool_pc = "returned"
    /\ tool_trace = <<"find_event_by_id", "elicit", "delete_event">>
    /\ elicited = [action |-> "accept",
                   data |-> [kind |-> "str", val |-> "yes, delete permanently"]]

\* C21 (secrets fail closed): when the profile's allowed_recipients_secret
\* cannot be resolved, get_runtime_config raises ConfigError, and a call of
\* send_message_tool has raised ToolError with no elicitation and no send.
SecretsFailClosed ==
    SecretUnresolved =>
        /\ get_runtime_config(profile_file, environ) = ConfigError
        /\ tool_call.tool = "send_message" =>
              /\ tool_pc = "raised"
              /\ tool_result = ToolErrorText
              /\ tool_trace = <<>>
              /\ elicited = NoElicitResult

\* a send refused under policy never because the keychain backend is not configured
SecretsFailClosedWitness ==
    /\ SecretUnresolved
    /\ profile_file.allowed_recipients_secret.backend = "keychain"
    /\ profile_file.confirmation_policy = "never"
    /\ tool_call.tool = "send_message"
    /\ tool_pc = "raised"

\* the send tool was called with a profile that loaded
SendCalled ==
    /\ tool_call.tool = "send_message"
    /\ tool_pc # "raised"

\* the recipient of the call matches a pattern of the profile's allowlist
Allowlisted ==
    \E i \in 1..Len(tool_call.config.allowed_recipients) :
        match_pattern(tool_call.recipient, tool_call.config.allowed_recipients[i])

\* the decision table, read off the call
TableSaysConfirm ==
    LET policy == tool_call.config.confirmation_policy IN
    \/ policy = "always"
    \/ policy = "group-only" /\ tool_call.group_chat
    \/ policy = "external-only" /\ ~Allowlisted

GroupGateOpen == ~tool_call.group_chat \/ tool_call.config.allow_group_messages

NoConfirmationNeeded ==
    \/ tool_call.config.confirmation_policy = "never"
    \/ tool_call.config.confirmation_policy = "external-only" /\ Allowlisted

SentWithoutElicitation ==
    /\ tool_pc = "returned"
    /\ tool_trace = <<"core_send_message">>
    /\ tool_result = SentText

OneTimeConsent ==
    /\ [](MapsCalled /\ Calls("get_json") > 0 =>
              external_call_approved[tool_call.session])
    /\ [][ /\ \A s \in Sessions :
                /\ external_call_approved[s] => external_call_approved'[s]
                /\ external_call_approved'[s] /\ ~external_call_approved[s] =>
                      /\ tool_pc = "consenting"
                      /\ tool_call.session = s
                      /\ elicited'.action = "accept"
           /\ (tool_pc' = "consenting" /\ tool_pc # "consenting") =>
                 ~external_call_approved[tool_call'.session]
           /\ (tool_pc = "consenting" /\ elicited'.action \in {"decline", "cancel"}) =>
                 /\ tool_pc' = "returned"
                 /\ tool_result' = MapsErrorText
                 /\ Calls("get_json")' = 0
                 /\ external_call_approved' = external_call_approved
       ]_vars

\* session s1 has approved and its later call goes to the network unasked,
\* while session s2 has not approved
OneTimeConsentWitness ==
    /\ MapsCalled
    /\ tool_call.session = "s1"
    /\ tool_call.address = "y"
    /\ maps_cache = {"x", "y"}
    /\ tool_trace = <<"get_json">>
    /\ external_call_approved = [s \in Sessions |-> s = "s1"]

\* C24 (clear_stored_credentials forces re-authentication): once the tool has
\* cleared the credentials, a request that asks the provider for the client
\* starts an authentication or waits for one, and is never handed the client
\* of an earlier authentication; the tool leaves the device cache as it was.
ReauthAfterClear ==
    [][ \A t \in Tasks :
          /\ (reauth_pending /\ task[t].pc = "auth" /\ task'[t].pc # "auth") =>
                task'[t].pc \in {"initializing", "waiting"}
          /\ (/\ task[t].pc = "body"
              /\ task[t].tool = "clear_stored_credentials"
              /\ task'[t].pc = "returned") => device_cache' = device_cache
      ]_vars

\* C25 (lazy singleton): at most one initialisation is in progress at any
\* time; while the provider has not been reset, at most one client has been
\* created and every task that was handed a client holds the provider's one.
SingleInitialization ==
    /\ Cardinality(Initializing) <= 1
    /\ ~was_reset =>
          /\ created <= 1
          /\ \A t \in Tasks : task[t].client # 0 => task[t].client = client

\* two calls raced: the second waited for the lock and was handed the client
\* that the first one created
SingleInitializationWitness ==
    /\ ~was_reset
    /\ created = 1
    /\ task[1].client = 1
    /\ task[2].client = 1
    /\ task[2].waited
    /\ task[2].authed

\* C27 (authentication middleware): the body of a tool of ICLOUD_TOOLS has run
\* only if get_authenticated_client returned a client during that call; a
\* call of such a tool that failed before that (no context, or authentication
\* raised) failed with ToolError and its body has not run; a tool of
\* NO_AUTH_TOOLS runs with no authentication attempt.
AuthBeforeBody ==
    \A t \in Tasks :
        /\ (task[t].tool \in ICLOUD_TOOLS /\ task[t].body) =>
              (task[t].authed /\ task[t].client # 0)
        /\ (task[t].tool \in ICLOUD_TOOLS /\ task[t].pc = "failed" /\ ~task[t].authed) =>
              (task[t].outcome = "ToolError" /\ ~task[t].body)
        /\ task[t].tool \in NO_AUTH_TOOLS =>
              /\ ~task[t].attempted
              /\ task[t].pc = "returned" => task[t].body

\* one call ran its body after authenticating, the other failed in the
\* middleware's authentication
AuthBeforeBodyWitness ==
    /\ task[1].tool = "refresh_cache"
    /\ task[1].pc = "returned"
    /\ task[1].authed
    /\ task[2].tool = "list_devices"
    /\ task[2].attempted
    /\ task[2].outcome = "ToolError"

\* C28 (device cache): a lookup hits only on an entry cached for the same
\* session and not yet timed out; a lookup of a timed-out entry misses and
\* removes the entry; an entry appears only by cache_devices of list_devices
\* for that session; after clear_all_caches no entry is left, and without an
\* entry every lookup misses.
DeviceCacheScoped ==
    /\ [](\A s \in Sessions :
             ~device_cache[s].present => ~get_cached_devices(device_cache, s).hit)
    /\ [][ \A t \in Tasks :
             LET s == task[t].session
             IN  /\ (/\ task[t].pc = "body"
                     /\ task'[t].pc # "body"
                     /\ task[t].tool \in {"list_devices", "get_device_info"}) =>
                       /\ task'[t].hit =>
                             /\ device_cache[s].present
                             /\ device_cache[s].fresh
                             /\ device_cache[s].owner = s
                             /\ task'[t].owner = s
                       /\ (device_cache[s].present /\ ~device_cache[s].fresh) =>
                             (~task'[t].hit /\ ~device_cache'[s].present)
                 /\ (/\ task[t].pc = "body"
                     /\ task[t].tool = "refresh_cache"
                     /\ task'[t].pc = "returned") =>
                       \A x \in Sessions : ~device_cache'[x].present
       ]_vars
    /\ [][ \A s \in Sessions :
             (~device_cache[s].present /\ device_cache'[s].present) =>
                 \E u \in Tasks : /\ task[u].tool = "list_devices"
                                  /\ task[u].session = s
                                  /\ task'[u].outcome = "ok"
       ]_vars

\* session s1 is served from the cache while session s2, with nothing cached,
\* misses and goes to iCloud
DeviceCacheScopedWitness ==
    /\ task[1].tool = "list_devices"
    /\ task[1].outcome = "cached"
    /\ task[1].hit
    /\ ~device_cache["s2"].present
    /\ task[2].tool = "list_devices"
    /\ task[2].stage = "body"
    /\ task[2].pc = "auth"

\* C30 (failed initialisation): the lock is held only by a task that is in its
\* initialisation; a failed initialisation releases the lock and leaves the
\* client unset; a task is only ever handed a client that was created.
FailedInitNotWedged ==
    /\ [](/\ lock # 0 => task[lock].pc = "initializing"
          /\ \A t \in Tasks : task[t].client \in 0..created)
    /\ [][ \A t \in Tasks :
             (task[t].pc = "initializing" /\ task'[t].pc = "failed") =>
                 (lock' = 0 /\ client = 0 /\ client' = 0)
       ]_vars

\* the first call's initialisation failed while the second call waited for the
\* lock; the second call then initialised the client itself
FailedInitNotWedgedWitness ==
    /\ task[1].pc = "failed"
    /\ task[1].outcome = "ToolError"
    /\ task[2].waited
    /\ task[2].authed
    /\ task[2].client = 1
    /\ auth_calls = 2
    /\ lock = 0

\* ------------------------------------------------- the retry prompt as text
\* A text is a sequence of pieces; NL is the newline character, and the two
\* pieces "\\" and "n" are a backslash and the letter n.
NL == "NL"

\* ve.errors() of the two listings: one field error, and two field errors
ve_errors(listing) ==
    IF listing = "e1"
    THEN << [loc |-> "x", msg |-> "m1"] >>
    ELSE << [loc |-> "x", msg |-> "m1"], [loc |-> "y", msg |-> "m2"] >>

\* manager.py line 77: f"- {loc}: {msg}"
error_line(e) == <<"- ", e.loc, ": ", e.msg>>

RECURSIVE join(_, _)
\* str.join
join(sep, parts) ==
    IF parts = <<>> THEN <<>>
    ELSE IF Len(parts) = 1 THEN parts[1]
    ELSE parts[1] \o sep \o join(sep, Tail(parts))

\* manager.py line 77: the separator "\\n" is a backslash and an n
error_details(errors) ==
    join(<<"\\", "n">>, [i \in DOMAIN errors |-> error_line(errors[i])])

\* manager.py lines 45 and 78: the text that is elicited with
MessageText(m) ==
    IF m.errors = "-" THEN <<m.base>>
    ELSE <<m.base, NL, NL, "Validation Error(s):", NL>>
            \o error_details(ve_errors(m.errors))
            \o <<NL, NL, "Please correct your input.">>

RECURSIVE Lines(_)
\* str.splitlines: the text cut at its newline characters
Lines(text) ==
    IF \A i \in DOMAIN text : text[i] # NL THEN <<text>>
    ELSE LET k == CHOOSE i \in DOMAIN text :
                      text[i] = NL /\ \A j \in 1..(i - 1) : text[j] # NL
         IN  <<SubSeq(text, 1, k - 1)>> \o Lines(SubSeq(text, k + 1, Len(text)))

\* C26 (retry prompt): a step's first ask uses its prompt unchanged; an ask
\* after a validation failure uses the step's prompt, unchanged in the
\* registry, as its first line, followed by the field errors of one attempt,
\* each error a line of its own and no other line carrying an error.
RetryPromptOneErrorPerLine ==
    \A r \in Runs :
        pc[r] = "asking" =>
            LET m == current_message[r]
                lines == Lines(MessageText(m))
            IN  /\ m.base = CurStep(r).message
                /\ lines[1] = <<CurStep(r).message>>
                /\ attempts[r] = 0 => MessageText(m) = <<CurStep(r).message>>
                /\ m.errors # "-" =>
                      LET errs == ve_errors(m.errors)
                      IN  /\ \A i \in DOMAIN errs :
                                \E j \in DOMAIN lines : lines[j] = error_line(errs[i])
                          /\ Cardinality({j \in DOMAIN lines :
                                 lines[j] # <<>> /\ lines[j][1] = "- "}) = Len(errs)

\* C29 (a declined optional step leaves no trace): in the call of execute that
\* follows an aborted run, a step that the aborted run declined as optional is
\* bypassed as answered only where its condition would have hidden it anyway,
\* so it is asked again whenever its condition holds; a step that the aborted
\* run accepted is never asked again.
DeclinedAskedAgain ==
    /\ [](\A j \in Indices(2) :
             step_state[1][j] = "accept" => step_state[2][j] \in {"pending", "answered"})
    /\ [][ \A j \in Indices(2) :
             (/\ step_state[1][j] = "decline"
              /\ ~steps[j].is_required
              /\ j \in DOMAIN step_state'[2]
              /\ step_state[2][j] = "pending"
              /\ step_state'[2][j] = "answered") =>
                 Hidden(steps[j], session_data[2])
       ]_vars

====
